---- MODULE Spec2Model ----
(***************************************************************************)
(* Model of the http-status-mock server (src/server.js).                   *)
(*                                                                         *)
(* One request is handled by the Express middleware chain                  *)
(*   pinoHttp -> limiter -> express.static -> GET /:statusCode -> GET /    *)
(*            -> 404 fallback -> error handler                             *)
(* Node runs the chain of one request on a single thread and the only      *)
(* state shared between requests is the limiter's per-IP hit counter, so   *)
(* one request is one action.  Strings that the code parses or formats     *)
(* (path parameters, table keys) are sequences of one-character strings.   *)
(***************************************************************************)
EXTENDS Integers, Sequences, FiniteSets

VARIABLES hits, made, last, reasonPhrases, statusDescriptions, running

vars == <<hits, made, last, reasonPhrases, statusDescriptions, running>>

(***************************************************************************)
(* Bounds and program constants                                            *)
(***************************************************************************)
\* How many requests past the limit one IP sends in one window.
Overshoot == 1

\* How many requests per window the second client sends under Spec.
LightLoad == 2

\* rateLimit({ max: 100 })
max == 100

\* Clients.
IPs == {"ip1", "ip2"}

(***************************************************************************)
(* JavaScript numbers and strings                                          *)
(***************************************************************************)
NaN == [nan |-> TRUE, n |-> 0]

Num(i) == [nan |-> FALSE, n |-> i]

isNaN(x) == x.nan

DecDigits == {"0", "1", "2", "3", "4", "5", "6", "7", "8", "9"}

HexDigits == DecDigits \cup {"a", "b", "c", "d", "e", "f", "A", "B", "C", "D", "E", "F"}

DigitValue(c) ==
    CASE c = "0" -> 0 [] c = "1" -> 1 [] c = "2" -> 2 [] c = "3" -> 3
      [] c = "4" -> 4 [] c = "5" -> 5 [] c = "6" -> 6 [] c = "7" -> 7
      [] c = "8" -> 8 [] c = "9" -> 9
      [] c \in {"a", "A"} -> 10 [] c \in {"b", "B"} -> 11
      [] c \in {"c", "C"} -> 12 [] c \in {"d", "D"} -> 13
      [] c \in {"e", "E"} -> 14 [] c \in {"f", "F"} -> 15

WhiteSpace == {" "}

RECURSIVE TrimStart(_)
TrimStart(s) ==
    IF s # <<>> /\ Head(s) \in WhiteSpace THEN TrimStart(Tail(s)) ELSE s

\* The longest prefix of s made of digits of the radix: its length and value.
RECURSIVE ParseDigits(_, _, _, _)
ParseDigits(s, radix, count, value) ==
    IF s # <<>> /\ Head(s) \in (IF radix = 16 THEN HexDigits ELSE DecDigits)
    THEN ParseDigits(Tail(s), radix, count + 1, value * radix + DigitValue(Head(s)))
    ELSE [count |-> count, value |-> value]

\* parseInt, last step: no digit at all is NaN, else the signed value.
ParseValue(r, neg) ==
    IF r.count = 0 THEN NaN
    ELSE Num(IF neg THEN 0 - r.value ELSE r.value)

\* parseInt after the sign: a 0x/0X prefix selects radix 16, else radix 10.
ParseRadix(s, neg) ==
    IF Len(s) >= 2 /\ s[1] = "0" /\ s[2] \in {"x", "X"}
    THEN ParseValue(ParseDigits(SubSeq(s, 3, Len(s)), 16, 0, 0), neg)
    ELSE ParseValue(ParseDigits(s, 10, 0, 0), neg)

\* parseInt after the white space: an optional sign.
ParseSign(s) ==
    IF s # <<>> /\ Head(s) \in {"+", "-"}
    THEN ParseRadix(Tail(s), Head(s) = "-")
    ELSE ParseRadix(s, FALSE)

\* parseInt(string) with no radix argument: leading white space and a sign
\* are skipped, a 0x/0X prefix selects radix 16, then the longest prefix of
\* digits is the value and whatever follows it is ignored.
parseInt(str) == ParseSign(TrimStart(str))

\* Number(string), the coercion of `code >= 100` on a table key: the WHOLE
\* string must be a numeric literal (keys here are over digits and letters).
ToNumber(str) ==
    LET hex == Len(str) >= 3 /\ str[1] = "0" /\ str[2] \in {"x", "X"}
        s3  == IF hex THEN SubSeq(str, 3, Len(str)) ELSE str
        r   == ParseDigits(s3, IF hex THEN 16 ELSE 10, 0, 0)
    IN  IF str = <<>> THEN Num(0)
        ELSE IF r.count = Len(s3) THEN Num(r.value)
        ELSE NaN

DigitChar(d) ==
    CASE d = 0 -> "0" [] d = 1 -> "1" [] d = 2 -> "2" [] d = 3 -> "3"
      [] d = 4 -> "4" [] d = 5 -> "5" [] d = 6 -> "6" [] d = 7 -> "7"
      [] d = 8 -> "8" [] d = 9 -> "9"

\* String(n) of a non-negative integer, as in `${statusCode}` and in the
\* property key of statusDescriptions[statusCode].
RECURSIVE ToString(_)
ToString(n) ==
    IF n < 10 THEN <<DigitChar(n)>>
    ELSE Append(ToString(n \div 10), DigitChar(n % 10))

(***************************************************************************)
(* The static tables                                                       *)
(***************************************************************************)
\* Reason phrases of the http-status-codes package for the codes the model
\* requests; the package has no phrase for 150, 299 and 599.
ReasonPhraseTable ==
    [c \in {100, 200, 400, 404, 429, 500} |->
        CASE c = 100 -> "Continue"
          [] c = 200 -> "OK"
          [] c = 400 -> "Bad Request"
          [] c = 404 -> "Not Found"
          [] c = 429 -> "Too Many Requests"
          [] c = 500 -> "Internal Server Error"]

\* require('./status-descriptions'): the entries in Object.keys order.
StatusDescriptionTable ==
    << [key |-> <<"1", "0", "0">>, text |-> "The server has received the request headers."],
       [key |-> <<"2", "0", "0">>, text |-> "The request has succeeded."],
       [key |-> <<"4", "0", "4">>, text |-> "The server cannot find the requested resource."],
       [key |-> <<"5", "0", "0">>, text |-> "The server has encountered an unexpected condition."] >>

\* Files under public/ (express.static): one auxiliary asset.
publicFiles == { << <<"s", ".", "c", "s", "s">> >> }

\* Object.keys(table)
ObjectKeys(table) == [i \in 1..Len(table) |-> table[i].key]

\* table[key]: the entry's text as a one-element sequence, <<>> for undefined.
Lookup(table, key) ==
    LET found == SelectSeq(table, LAMBDA e : e.key = key)
    IN  IF found = <<>> THEN <<>> ELSE <<found[1].text>>

\* getReasonPhrase(statusCode) of http-status-codes, on a JavaScript number:
\* the phrase, or it throws an Error (which has no statusCode) when the
\* package has no phrase for it (its message also names the code).
getReasonPhrase(statusCode, phrases) ==
    IF ~isNaN(statusCode) /\ statusCode.n \in DOMAIN phrases
    THEN [threw |-> FALSE, phrase |-> phrases[statusCode.n], error |-> <<>>]
    ELSE [threw |-> TRUE, phrase |-> "",
          error |-> <<[name |-> "Error", message |-> "Status code does not exist",
                       statusCode |-> <<>>]>>]

(***************************************************************************)
(* Error classes                                                           *)
(***************************************************************************)
\* new HttpError(statusCode, message)
HttpError(statusCode, message) ==
    [name |-> "HttpError", message |-> message, statusCode |-> <<statusCode>>]

\* new ValidationError(message): super(400, message)
ValidationError(message) ==
    [HttpError(400, message) EXCEPT !.name = "ValidationError"]

(***************************************************************************)
(* Middleware.  A request is [ip, method, segments]; segments is the path  *)
(* split at "/", so GET / has none.  A handler's result is what it leaves  *)
(* behind: the error it passed to next() or threw (err), the responses it  *)
(* sent, the handlers that ran, the lines it logged and the description    *)
(* table after it.                                                         *)
(***************************************************************************)
\* pinoHttp customLogLevel(res, err)
customLogLevel(statusCode, err) ==
    IF statusCode >= 400 /\ statusCode < 500 THEN "warn"
    ELSE IF statusCode >= 500 \/ err # <<>> THEN "error"
    ELSE "info"

\* A faulty variant: one key for every client.
keyGenerator_shared(req) == "ip1"

\* express-rate-limit's key of a request: its IP.
keyGenerator(req) == req.ip

\* A faulty variant: the request that reaches max is refused already.
limiter_atMax(req, h) ==
    LET key       == keyGenerator(req)
        totalHits == h[key] + 1
    IN  [hits      |-> [h EXCEPT ![key] = totalHits],
         passed    |-> ~(totalHits >= max),
         responses |-> IF totalHits >= max
                       THEN <<[status |-> 429,
                               body   |-> [page |-> "json", status |-> 429,
                                           message |-> "Too many requests from this IP, please try again after a minute"]]>>
                       ELSE <<>>]

\* app.use(limiter): count the hit, answer 429 once the IP is over max.
limiter(req, h) ==
    LET key       == keyGenerator(req)
        totalHits == h[key] + 1
    IN  [hits      |-> [h EXCEPT ![key] = totalHits],
         passed    |-> ~(totalHits > max),
         responses |-> IF totalHits > max
                       THEN <<[status |-> 429,
                               body   |-> [page |-> "json", status |-> 429,
                                           message |-> "Too many requests from this IP, please try again after a minute"]]>>
                       ELSE <<>>]

\* The store's window of one IP elapses: its count starts again.
resetKey(h, key) == [h EXCEPT ![key] = 0]

\* app.use(express.static('public'))
serveStatic(req) ==
    IF req.method \in {"GET", "HEAD"} /\ req.segments \in publicFiles
    THEN [passed |-> FALSE,
          responses |-> <<[status |-> 200, body |-> [page |-> "file", path |-> req.segments]]>>]
    ELSE [passed |-> TRUE, responses |-> <<>>]

\* The status page is sent, or getReasonPhrase has thrown and Express
\* passes the Error on.  A faulty variant: the fallback text is stored in the
\* table (statusDescriptions[statusCode] ||= ...).
sendStatus_storesDefault(n, reasonPhrase, description, descs) ==
    IF reasonPhrase.threw
    THEN [err |-> reasonPhrase.error, responses |-> <<>>,
          handlers |-> <<"statusCode">>, logs |-> <<>>, descs |-> descs]
    ELSE [err |-> <<>>,
          responses |-> <<[status |-> n,
                           body |-> [page |-> "status",
                                     code |-> ToString(n),
                                     phrase |-> reasonPhrase.phrase,
                                     description |->
                                         IF description = <<>>
                                         THEN "No additional description available."
                                         ELSE description[1]]]>>,
          handlers |-> <<"statusCode">>, logs |-> <<>>,
          descs |-> IF description = <<>>
                    THEN Append(descs, [key |-> ToString(n),
                                        text |-> "No additional description available."])
                    ELSE descs]

\* res.status(statusCode).send(page) with the phrase and the description, or
\* getReasonPhrase has thrown and Express passes the Error on.
sendStatus(n, reasonPhrase, description, descs) ==
    IF reasonPhrase.threw
    THEN [err |-> reasonPhrase.error, responses |-> <<>>,
          handlers |-> <<"statusCode">>, logs |-> <<>>, descs |-> descs]
    ELSE [err |-> <<>>,
          responses |-> <<[status |-> n,
                           body |-> [page |-> "status",
                                     code |-> ToString(n),
                                     phrase |-> reasonPhrase.phrase,
                                     description |->
                                         IF description = <<>>
                                         THEN "No additional description available."
                                         ELSE description[1]]]>>,
          handlers |-> <<"statusCode">>, logs |-> <<>>, descs |-> descs]

\* The handler's body once the parameter is parsed.
validateStatusCode(statusCode, phrases, descs) ==
    IF isNaN(statusCode) \/ statusCode.n < 100 \/ statusCode.n > 599
    THEN [err |-> <<ValidationError("Invalid status code")>>, responses |-> <<>>,
          handlers |-> <<"statusCode">>, logs |-> <<>>, descs |-> descs]
    ELSE sendStatus(statusCode.n, getReasonPhrase(statusCode, phrases),
                    Lookup(descs, ToString(statusCode.n)), descs)

\* app.get('/:statusCode', ...)
statusCodeHandler(req, phrases, descs) ==
    validateStatusCode(parseInt(req.segments[1]), phrases, descs)

\* A faulty variant: the upper end of a class is included (code <= hi).
statusGroup_inclusive(descs, lo, hi) ==
    SelectSeq(ObjectKeys(descs),
              LAMBDA code : LET v == ToNumber(code)
                            IN  ~isNaN(v) /\ v.n >= lo /\ v.n <= hi)

\* Object.keys(statusDescriptions).filter(code => code >= lo && code < hi)
statusGroup(descs, lo, hi) ==
    SelectSeq(ObjectKeys(descs),
              LAMBDA code : LET v == ToNumber(code)
                            IN  ~isNaN(v) /\ v.n >= lo /\ v.n < hi)

\* reasonPhrase = ''; try { reasonPhrase = getReasonPhrase(...) } catch {}
phraseOrEmpty(r) == IF r.threw THEN "" ELSE r.phrase

\* One <li> of the index page: <a href="/${code}">${code} ${reasonPhrase}</a>
statusLink(code, phrases) ==
    [href   |-> <<"/">> \o code,
     code   |-> code,
     phrase |-> phraseOrEmpty(getReasonPhrase(parseInt(code), phrases))]

statusGroups(descs) ==
    << [name |-> "1xx Informational", codes |-> statusGroup(descs, 100, 200)],
       [name |-> "2xx Success",       codes |-> statusGroup(descs, 200, 300)],
       [name |-> "3xx Redirection",   codes |-> statusGroup(descs, 300, 400)],
       [name |-> "4xx Client Error",  codes |-> statusGroup(descs, 400, 500)],
       [name |-> "5xx Server Error",  codes |-> statusGroup(descs, 500, 600)] >>

\* Object.entries(statusGroups).map(...): every group with its links.
renderGroups(groups, phrases) ==
    [g \in 1..Len(groups) |->
        [name  |-> groups[g].name,
         links |-> [i \in 1..Len(groups[g].codes) |-> statusLink(groups[g].codes[i], phrases)]]]

\* app.get('/', ...)
indexHandler(req, phrases, descs) ==
    [err |-> <<>>,
     responses |-> <<[status |-> 200,
                      body |-> [page |-> "index",
                                groups |-> renderGroups(statusGroups(descs), phrases)]]>>,
     handlers |-> <<"index">>, logs |-> <<>>, descs |-> descs]

\* app.use((req, res, next) => next(new HttpError(404, 'Resource not found')))
notFound(req, phrases, descs) ==
    [err |-> <<HttpError(404, "Resource not found")>>, responses |-> <<>>,
     handlers |-> <<"notFound">>, logs |-> <<>>, descs |-> descs]

\* A faulty variant: the error is logged and no page is sent.
errorHandler_noSend(err, req) ==
    [responses |-> <<>>,
     logs |-> <<[by |-> "errorHandler", level |-> "error", statusCode |-> 500]>>]

\* A faulty variant: the failure's own statusCode is ignored.
errorHandler_always500(err, req) ==
    [responses |-> <<[status |-> 500,
                      body |-> [page |-> "error", code |-> ToString(500),
                                message |-> err.message]]>>,
     logs |-> <<[by |-> "errorHandler", level |-> "error", statusCode |-> 500]>>]

\* app.use((err, req, res, next) => ...): the error boundary.
errorHandler(err, req) ==
    LET statusCode   == IF err.statusCode = <<>> \/ err.statusCode[1] = 0
                        THEN 500 ELSE err.statusCode[1]
        errorMessage == IF err.message = "" THEN "Internal Server Error" ELSE err.message
    IN  [responses |-> <<[status |-> statusCode,
                          body |-> [page |-> "error", code |-> ToString(statusCode),
                                    message |-> errorMessage]]>>,
         logs |-> <<[by |-> "errorHandler",
                     level |-> IF statusCode >= 500 THEN "error" ELSE "warn",
                     statusCode |-> statusCode]>>]

\* A faulty variant: the status route takes paths of any depth ('/:statusCode*').
route_anyDepth(req, phrases, descs) ==
    IF req.method \in {"GET", "HEAD"} /\ Len(req.segments) >= 1
    THEN statusCodeHandler(req, phrases, descs)
    ELSE IF req.method \in {"GET", "HEAD"} /\ Len(req.segments) = 0
    THEN indexHandler(req, phrases, descs)
    ELSE notFound(req, phrases, descs)

\* A faulty variant: the parameter is optional ('/:statusCode?'), so the
\* status route takes GET / with an empty parameter.
route_optionalParam(req, phrases, descs) ==
    IF req.method \in {"GET", "HEAD"} /\ Len(req.segments) <= 1
    THEN validateStatusCode(parseInt(IF req.segments = <<>> THEN <<>> ELSE req.segments[1]),
                            phrases, descs)
    ELSE notFound(req, phrases, descs)

\* Express routing: the first route whose method and path pattern match.
route(req, phrases, descs) ==
    IF req.method \in {"GET", "HEAD"} /\ Len(req.segments) = 1
    THEN statusCodeHandler(req, phrases, descs)
    ELSE IF req.method \in {"GET", "HEAD"} /\ Len(req.segments) = 0
    THEN indexHandler(req, phrases, descs)
    ELSE notFound(req, phrases, descs)

\* The error a route passed to next() or threw goes to the error handler,
\* which adds its response and its log line.
withError(rt, eh) ==
    [err |-> rt.err, responses |-> rt.responses \o eh.responses,
     handlers |-> <<"limiter", "static">> \o rt.handlers \o <<"errorHandler">>,
     logs |-> rt.logs \o eh.logs, descs |-> rt.descs]

\* After the matching route has run.
afterRoute(req, rt) ==
    IF rt.err # <<>>
    THEN withError(rt, errorHandler(rt.err[1], req))
    ELSE [rt EXCEPT !.handlers = <<"limiter", "static">> \o @]

\* After express.static: the file is sent, or the routes take over.
afterStatic(req, st, phrases, descs) ==
    IF ~st.passed
    THEN [err |-> <<>>, responses |-> st.responses,
          handlers |-> <<"limiter", "static">>, logs |-> <<>>, descs |-> descs]
    ELSE afterRoute(req, route(req, phrases, descs))

\* After the limiter: its 429, or the rest of the chain.
afterLimiter(req, lim, phrases, descs) ==
    IF ~lim.passed
    THEN [err |-> <<>>, responses |-> lim.responses, handlers |-> <<"limiter">>,
          logs |-> <<>>, descs |-> descs]
    ELSE afterStatic(req, serveStatic(req), phrases, descs)

\* pinoHttp logs the finished response at the level of its status.
finished(lim, out) ==
    [hits      |-> lim.hits,
     limited   |-> ~lim.passed,
     err       |-> out.err,
     responses |-> out.responses,
     handlers  |-> out.handlers,
     descs     |-> out.descs,
     logs      |-> out.logs \o
                   IF out.responses = <<>> THEN <<>>
                   ELSE <<[by |-> "pinoHttp",
                           level |-> customLogLevel(out.responses[Len(out.responses)].status, <<>>),
                           statusCode |-> out.responses[Len(out.responses)].status]>>]

\* The chain once the limiter has counted the request.
limited(req, lim, phrases, descs) ==
    finished(lim, afterLimiter(req, lim, phrases, descs))

\* The whole chain for one request, from the hit counters h and the tables.
pipeline(req, h, phrases, descs) == limited(req, limiter(req, h), phrases, descs)

(***************************************************************************)
(* Requests the clients send                                               *)
(***************************************************************************)
Seg200     == <<"2", "0", "0">>
Seg404     == <<"4", "0", "4">>
Seg429     == <<"4", "2", "9">>
Seg299     == <<"2", "9", "9">>
Seg99      == <<"9", "9">>
Seg600     == <<"6", "0", "0">>
SegAbc     == <<"a", "b", "c">>
Seg404abc  == <<"4", "0", "4", "a", "b", "c">>
SegHex     == <<"0", "x", "1", "F", "4">>
SegDecimal == <<"1", "5", "0", ".", "7">>
SegFavicon == <<"f", "a", "v", "i", "c", "o", "n", ".", "i", "c", "o">>
SegCss     == <<"s", ".", "c", "s", "s">>

GetPaths ==
    { <<>>, <<Seg200>>, <<Seg404>>, <<Seg429>>, <<Seg299>>, <<Seg99>>, <<Seg600>>,
      <<SegAbc>>, <<Seg404abc>>, <<SegHex>>, <<SegDecimal>>, <<SegFavicon>>,
      <<SegCss>>, <<SegAbc, SegAbc>> }

\* Every kind of request, from either client.
Requests ==
    [ip : IPs, method : {"GET"}, segments : GetPaths]
      \cup [ip : IPs, method : {"POST"}, segments : {<<Seg200>>}]

\* The requests of the two-heavy-clients specification.
LimiterRequests == [ip : IPs, method : {"GET"}, segments : {<<>>, <<Seg200>>, <<SegAbc>>}]

\* Requests per window of each client under Spec: ip1 goes past the limit,
\* ip2 sends a few requests in between.
Load(ip) == IF ip = "ip1" THEN max + Overshoot ELSE LightLoad

(***************************************************************************)
(* State machine                                                           *)
(***************************************************************************)
Init ==
    /\ hits = [ip \in IPs |-> 0]
    /\ made = [ip \in IPs |-> 0]
    /\ last = <<>>
    /\ reasonPhrases = ReasonPhraseTable
    /\ statusDescriptions = StatusDescriptionTable
    /\ running = TRUE

\* The server handles one request; made and last.over are history: the
\* requests the IP has sent in its current window, and whether this one
\* came after max of them.
Request(req) ==
    /\ running
    /\ hits[req.ip] < max + Overshoot
    /\ \E r \in {pipeline(req, hits, reasonPhrases, statusDescriptions)} :
           /\ hits' = r.hits
           /\ statusDescriptions' = r.descs
           /\ last' = <<[req |-> req, over |-> made[req.ip] + 1 > max,
                         limited |-> r.limited, err |-> r.err,
                         responses |-> r.responses, handlers |-> r.handlers,
                         logs |-> r.logs]>>
    /\ made' = [made EXCEPT ![req.ip] = @ + 1]
    /\ UNCHANGED <<reasonPhrases, running>>

\* One minute after an IP's window began, its window elapses.
WindowElapses(ip) ==
    /\ hits[ip] > 0
    /\ hits' = resetKey(hits, ip)
    /\ made' = [made EXCEPT ![ip] = 0]
    /\ UNCHANGED <<last, reasonPhrases, statusDescriptions, running>>

Next ==
    \/ \E req \in Requests : hits[req.ip] < Load(req.ip) /\ Request(req)
    \/ \E ip \in IPs : WindowElapses(ip)

Spec == Init /\ [][Next]_vars

NextLimiter ==
    \/ \E req \in LimiterRequests : Request(req)
    \/ \E ip \in IPs : WindowElapses(ip)

SpecLimiter == Init /\ [][NextLimiter]_vars

(***************************************************************************)
(* The index page over any description table                               *)
(***************************************************************************)
\* Keys a description table may hold, in Object.keys order (integer keys
\* ascend): boundary codes, codes without a reason phrase, codes out of range.
CandidateKeys ==
    << Seg99, <<"1", "0", "0">>, <<"1", "9", "9">>, Seg200, Seg299, Seg404,
       <<"5", "9", "9">>, Seg600 >>

\* The table holding the candidate keys picked by keep.
TableOf(keep) ==
    LET kept == SelectSeq([i \in 1..Len(CandidateKeys) |-> i], LAMBDA i : i \in keep)
    IN  [j \in 1..Len(kept) |-> [key |-> CandidateKeys[kept[j]], text |-> "description"]]

InitIndex ==
    /\ hits = [ip \in IPs |-> 0]
    /\ made = [ip \in IPs |-> 0]
    /\ last = <<>>
    /\ reasonPhrases = ReasonPhraseTable
    /\ statusDescriptions \in {TableOf(keep) : keep \in SUBSET (1..Len(CandidateKeys))}
    /\ running = TRUE

NextIndex ==
    \/ \E ip \in IPs : /\ hits[ip] < LightLoad
                       /\ Request([ip |-> ip, method |-> "GET", segments |-> <<>>])
    \/ \E ip \in IPs : WindowElapses(ip)

SpecIndex == InitIndex /\ [][NextIndex]_vars

(***************************************************************************)
(* Properties                                                              *)
(***************************************************************************)
Served == last # <<>>

\* The request handled last, and what it got.
L == last[1]

ServedGet == Served /\ L.req.method = "GET"

OneResponse == Len(L.responses) = 1

\* A path value written as a base-10 integer: decimal digits only.
IsDecimalInteger(seg) == seg # <<>> /\ \A i \in 1..Len(seg) : seg[i] \in DecDigits

\* The numeral of every code in [100,599].
Numeral == [c \in 100..599 |-> ToString(c)]

\* seg is the numeral of a code in [100,599].
IsStatusCode(seg) == \E c \in 100..599 : seg = Numeral[c]

\* What a server that has handled nothing answers to the request.
Fresh(req) ==
    pipeline(req, [ip \in IPs |-> 0], ReasonPhraseTable, StatusDescriptionTable).responses

\* C1: a GET /c with c in [100,599] that is not rate-limited is answered
\* with status exactly c, whether or not c has a reason phrase.
C1_EchoesEveryCode ==
    (ServedGet /\ Len(L.req.segments) = 1 /\ ~L.over)
        => \A c \in 100..599 :
               L.req.segments[1] = Numeral[c]
                   => OneResponse /\ L.responses[1].status = c

\* C2: a GET of a single-segment value that is not a base-10 integer, or
\* whose value is outside [100,599], and that is no static file, is answered
\* 400 "Invalid status code" by a ValidationError reaching the error handler.
C2_RejectsNonCodes ==
    (/\ ServedGet /\ Len(L.req.segments) = 1 /\ ~L.over
     /\ L.req.segments \notin publicFiles
     /\ ~IsStatusCode(L.req.segments[1]))
        => /\ OneResponse
           /\ L.responses[1].status = 400
           /\ L.responses[1].body.page = "error"
           /\ L.responses[1].body.message = "Invalid status code"
           /\ L.err = <<ValidationError("Invalid status code")>>

C4_IndexAlwaysOk ==
    (ServedGet /\ L.req.segments = <<>>)
        => /\ OneResponse
           /\ L.responses[1].status = 200
           /\ L.responses[1].body.page = "index"

\* C4 amended: GET / is answered 200 with the index page whenever it is
\* among the first max requests of its IP in the window.
C4_IndexOkUnlessLimited ==
    (ServedGet /\ L.req.segments = <<>> /\ ~L.over)
        => /\ OneResponse
           /\ L.responses[1].status = 200
           /\ L.responses[1].body.page = "index"
           /\ L.handlers = <<"limiter", "static", "index">>

C4_Witness ==
    /\ ServedGet /\ L.req.segments = <<>> /\ ~L.over
    /\ made[L.req.ip] = max
    /\ made[CHOOSE ip \in IPs : ip # L.req.ip] > 0
    /\ L.responses[1].status = 200

\* C5: of the requests an IP sends in one window the first max pass the
\* limiter on to the static and route handlers; every later one is answered
\* 429 by the limiter alone, whatever its path; after the window has
\* elapsed the count starts again.
C5_FixedWindow ==
    Served
        => /\ ~L.over
               => /\ ~L.limited
                  /\ SubSeq(L.handlers, 1, 2) = <<"limiter", "static">>
           /\ L.over
               => /\ L.limited
                  /\ OneResponse
                  /\ L.responses[1].status = 429
                  /\ L.handlers = <<"limiter">>

C5_Witness ==
    /\ Served /\ L.over
    /\ L.req.segments = <<Seg200>>
    /\ L.responses[1].status = 429
    /\ made[L.req.ip] = max + 1

\* C6: every request gets exactly one response, on every path through the
\* chain.
C6_ExactlyOneResponse == Served => OneResponse

\* The path through an exception thrown inside the status handler.
C6_Witness ==
    /\ Served /\ OneResponse
    /\ L.err # <<>> /\ L.err[1].name = "Error"
    /\ L.handlers = <<"limiter", "static", "statusCode", "errorHandler">>

\* C7: a failure raised while a request is handled reaches the error
\* handler, which answers with an error page whose status is the failure's
\* statusCode, or 500 without one, and logs at error level from 500 up and
\* at warn level below; the server stays up.
C7_ErrorBoundary ==
    (Served /\ L.err # <<>>)
        => LET status == IF L.err[1].statusCode = <<>> THEN 500
                         ELSE L.err[1].statusCode[1]
               logged == SelectSeq(L.logs, LAMBDA l : l.by = "errorHandler")
           IN  /\ OneResponse
               /\ L.responses[1].status = status
               /\ L.responses[1].body.page = "error"
               /\ L.handlers[Len(L.handlers)] = "errorHandler"
               /\ Len(logged) = 1
               /\ logged[1].level = (IF status >= 500 THEN "error" ELSE "warn")
               /\ running

C7_Witness ==
    /\ Served /\ L.err # <<>>
    /\ L.err[1].statusCode = <<>>
    /\ L.responses[1].status = 500
    /\ made[L.req.ip] > 1

\* How often the key is linked in a group of the index page.
LinksTo(group, key) == Cardinality({j \in 1..Len(group.links) : group.links[j].code = key})

\* C8: the index page has the five groups 1xx..5xx; a key of the
\* description table that is the numeral of a code in [100,599] is linked
\* once, in the group of its leading digit, and in no other group; any other
\* key is linked nowhere; every link goes to /<code> and carries the code and
\* its reason phrase, the empty phrase when the code has none.
C8_IndexGroups ==
    (ServedGet /\ L.req.segments = <<>> /\ ~L.over)
        => /\ OneResponse
           /\ L.responses[1].status = 200
           /\ LET groups == L.responses[1].body.groups
              IN  /\ Len(groups) = 5
                  /\ \A i \in 1..Len(statusDescriptions) : \A g \in 1..5 :
                         LinksTo(groups[g], statusDescriptions[i].key) =
                             IF \E c \in (100 * g)..(100 * g + 99) :
                                    statusDescriptions[i].key = Numeral[c]
                             THEN 1 ELSE 0
                  /\ \A g \in 1..5 : \A j \in 1..Len(groups[g].links) :
                         LET link == groups[g].links[j]
                         IN  /\ \E i \in 1..Len(statusDescriptions) :
                                    statusDescriptions[i].key = link.code
                             /\ link.href = <<"/">> \o link.code
                             /\ link.phrase =
                                    IF \E c \in DOMAIN ReasonPhraseTable : Numeral[c] = link.code
                                    THEN ReasonPhraseTable[CHOOSE c \in DOMAIN ReasonPhraseTable :
                                                               Numeral[c] = link.code]
                                    ELSE ""

\* A table with keys below 100 and above 599 and a code without a phrase.
C8_Witness ==
    /\ ServedGet /\ L.req.segments = <<>> /\ ~L.over
    /\ {Seg99, Seg299, Seg404, Seg600} \subseteq {statusDescriptions[i].key : i \in 1..Len(statusDescriptions)}
    /\ \E j \in 1..Len(L.responses[1].body.groups[2].links) :
           /\ L.responses[1].body.groups[2].links[j].code = Seg299
           /\ L.responses[1].body.groups[2].links[j].phrase = ""

\* C9: the limiter's count of an IP is the number of requests that IP has
\* sent in its current window, whatever the other IPs send in between, and a
\* request is answered 429 only when its own IP has sent more than max.
C9_PerIpCounters ==
    /\ \A ip \in IPs : hits[ip] = made[ip]
    /\ (Served /\ L.limited) => L.over

\* One IP is over the limit while the other is still served.
C9_Witness ==
    /\ Served
    /\ hits["ip1"] = max + 1
    /\ L.req.ip = "ip2" /\ ~L.limited
    /\ hits["ip2"] \in 1..max

\* C10: a request below the rate limit is answered as a server that has
\* handled nothing would answer it, whatever was handled before, and the
\* two tables are as they were loaded.
C10_Stateless ==
    /\ (Served /\ ~L.over) => L.responses = Fresh(L.req)
    /\ statusDescriptions = StatusDescriptionTable
    /\ reasonPhrases = ReasonPhraseTable

\* The index page served as the last request of a window, after requests of
\* both clients.
C10_Witness ==
    /\ ServedGet /\ ~L.over /\ OneResponse
    /\ L.req.segments = <<>>
    /\ L.req.ip = "ip1" /\ made["ip1"] = max /\ made["ip2"] > 0

====
